---- MODULE Spec2Model ----
(***************************************************************************)
(* Model of googledocscomment.py: the offset-mapping engine                *)
(* (get_text_and_index_map, create_batch_requests) and the batch           *)
(* submission run of the "Apply Edits as Suggestions" button.              *)
(*                                                                         *)
(* Text is a sequence of one-character strings.  The external document is  *)
(* a sequence of cells; the cell at position i has native index i.  A cell *)
(* is a character with a style, or the non-text element Other (one index   *)
(* wide).  A text run of the document is a maximal stretch of text cells   *)
(* of one style.  A cell also records where it comes from: pos is its      *)
(* position in the document it was first part of (0 for inserted text) and *)
(* by is the suggestion id that inserted it (-1 for original text).        *)
(***************************************************************************)
EXTENDS Integers, Sequences, FiniteSets, TLC

VARIABLES
    doc,                     \* the external document: sequence of cells
    docRev,                  \* the external document's current revision
    otherWrites,             \* writes made so far by another writer
    edits,                   \* the uploaded edit list
    pc,                      \* position of the run
    retry_attempt,           \* loop variable of the retry loop
    searchable_text,         \* snapshot: flat text
    flat_text_with_indices,  \* snapshot: run list
    current_revision_id,     \* snapshot: revision token
    snapshot,                \* the document cells the snapshot was read from
    all_requests,            \* requests built from the snapshot
    unmatched_edits,         \* edits reported as unmatched
    current_applied,         \* applied_count returned by the builder
    total_applied,           \* the run's applied counter
    chunk_num,               \* number of chunks submitted in this attempt
    chunk_success_count,     \* number of chunks that succeeded in this attempt
    submissions,             \* results of the batchUpdate calls, in order
    fetches,                 \* number of documents().get calls made
    outcome,                 \* how the run ended and what it displayed
    match,                   \* translator input: flat span
    api_range                \* translator output

vars == <<doc, docRev, otherWrites, edits, pc, retry_attempt, searchable_text,
          flat_text_with_indices, current_revision_id, snapshot, all_requests,
          unmatched_edits, current_applied, total_applied, chunk_num,
          chunk_success_count, submissions, fetches, outcome, match, api_range>>

----------------------------------------------------------------------------
(* Program constants *)

CHUNK_SIZE == 10
MAX_RETRIES == 5

(* Bounds of the model *)

MaxEdits == 2          \* length of the edit list given to the builder
MaxRunEdits == 6       \* length of the edit list of a run
MaxRuns == 2           \* length of the run list given to the translator
MaxOtherWrites == 6    \* writes by another writer during one run
MaxFlat == 12          \* largest flat offset given to the translator

----------------------------------------------------------------------------
(* Text *)

Other == "#"           \* a non-text element of the document
Whitespace == {" ", "\n"}

RECURSIVE lstrip(_)
lstrip(s) == IF s # <<>> /\ Head(s) \in Whitespace THEN lstrip(Tail(s)) ELSE s

RECURSIVE rstrip(_)
rstrip(s) ==
    IF s # <<>> /\ s[Len(s)] \in Whitespace THEN rstrip(SubSeq(s, 1, Len(s) - 1)) ELSE s

\* str.strip()
strip(s) == rstrip(lstrip(s))

\* dict.get(key, "")
get(edit, key) == IF key \in DOMAIN edit THEN edit[key] ELSE <<>>

\* re.search(re.escape(term), text): the leftmost literal occurrence, as the
\* 0-based half-open span [start, end), or NoMatch.
NoMatch == [found |-> FALSE]

OccursAt(term, text, p) ==
    /\ p + Len(term) <= Len(text)
    /\ \A j \in 1..Len(term) : text[p + j] = term[j]

re_search(term, text) ==
    LET hits == {p \in 0..Len(text) : OccursAt(term, text, p)}
    IN  IF hits = {} THEN NoMatch
        ELSE LET p == CHOOSE q \in hits : \A r \in hits : q <= r
             IN  [found |-> TRUE, start |-> p, end |-> p + Len(term)]

----------------------------------------------------------------------------
(* get_text_and_index_map *)

RECURSIVE TextRuns(_, _, _)
TextRuns(cells, i, acc) ==
    IF i > Len(cells) THEN acc
    ELSE IF cells[i].c = Other THEN TextRuns(cells, i + 1, acc)
    ELSE IF /\ acc # <<>>
            /\ acc[Len(acc)].endIndex = i
            /\ cells[i - 1].s = cells[i].s
         THEN TextRuns(cells, i + 1,
                  [acc EXCEPT ![Len(acc)] =
                      [text |-> @.text \o <<cells[i].c>>,
                       startIndex |-> @.startIndex,
                       endIndex |-> i + 1]])
         ELSE TextRuns(cells, i + 1,
                  Append(acc, [text |-> <<cells[i].c>>,
                               startIndex |-> i,
                               endIndex |-> i + 1]))

RECURSIVE join(_)
join(items) == IF items = <<>> THEN <<>> ELSE Head(items).text \o join(Tail(items))

get_text_and_index_map(cells, rev) ==
    LET items == TextRuns(cells, 1, <<>>)
    IN  [searchable_text |-> join(items),
         flat_text_with_indices |-> items,
         revision_id |-> rev]

----------------------------------------------------------------------------
(* create_batch_requests: index translation loop *)

\* variant: the end offset is owned like a start offset
EndOwned_as_start(flat_end, current_flat_pos, text_len) ==
    flat_end >= current_flat_pos /\ flat_end < current_flat_pos + text_len

EndOwned(flat_end, current_flat_pos, text_len) ==
    flat_end > current_flat_pos /\ flat_end <= current_flat_pos + text_len

\* variant: the start offset is owned like an end offset
StartOwned_as_end(flat_start, current_flat_pos, text_len) ==
    flat_start > current_flat_pos /\ flat_start <= current_flat_pos + text_len

StartOwned(flat_start, current_flat_pos, text_len) ==
    flat_start >= current_flat_pos /\ flat_start < current_flat_pos + text_len

RECURSIVE TranslateLoop(_, _, _, _, _, _, _)
TranslateLoop(items, k, flat_start, flat_end, api_start_index, api_end_index, current_flat_pos) ==
    IF k > Len(items)
    THEN [start |-> api_start_index, end |-> api_end_index]
    ELSE LET item == items[k]
             text_len == Len(item.text)
             s == IF /\ api_start_index = -1
                     /\ StartOwned(flat_start, current_flat_pos, text_len)
                  THEN item.startIndex + (flat_start - current_flat_pos)
                  ELSE api_start_index
             e == IF /\ api_end_index = -1
                     /\ EndOwned(flat_end, current_flat_pos, text_len)
                  THEN item.startIndex + (flat_end - current_flat_pos)
                  ELSE api_end_index
         IN  IF s # -1 /\ e # -1
             THEN [start |-> s, end |-> e]
             ELSE TranslateLoop(items, k + 1, flat_start, flat_end,
                                s, e, current_flat_pos + text_len)

Translate(items, flat_start, flat_end) ==
    TranslateLoop(items, 1, flat_start, flat_end, -1, -1, 0)

\* the guard after the loop: the range is usable
RangeOk(r) == r.start # -1 /\ r.end # -1 /\ r.start < r.end

----------------------------------------------------------------------------
(* create_batch_requests: field read and classification *)

\* variant: the original field is read without trimming
original_text_raw(edit) == get(edit, "original")

original_text(edit) == strip(get(edit, "original"))
corrected_text(edit) == strip(get(edit, "corrected"))

\* "Malformed" is the final else branch, which skips the edit
action_type(edit) ==
    IF original_text(edit) # <<>> /\ corrected_text(edit) # <<>> THEN "Replacement"
    ELSE IF original_text(edit) # <<>> /\ corrected_text(edit) = <<>> THEN "Deletion"
    ELSE IF original_text(edit) = <<>> /\ corrected_text(edit) # <<>> THEN "Insertion"
    ELSE "Malformed"

search_term(edit) ==
    IF action_type(edit) = "Insertion" THEN corrected_text(edit)
    ELSE original_text(edit)

(* create_batch_requests: the requests of one matched edit; i is the edit's
   0-based position, which names its suggestion id *)

delete_request(api_start_index, api_end_index, i) ==
    [kind |-> "deleteContentRange", startIndex |-> api_start_index,
     endIndex |-> api_end_index, suggestion_id |-> i]

insert_request(api_start_index, text, i) ==
    [kind |-> "insertText", index |-> api_start_index, text |-> text,
     suggestion_id |-> i]

\* variant: the insertion of a replacement is emitted before its deletion
edit_requests_insert_first(edit, r, i) ==
    IF action_type(edit) \in {"Deletion", "Replacement"}
    THEN (IF corrected_text(edit) # <<>>
          THEN <<insert_request(r.start, corrected_text(edit), i)>>
          ELSE <<>>)
         \o <<delete_request(r.start, r.end, i)>>
    ELSE <<insert_request(r.start, corrected_text(edit), i)>>

\* variant: an insertion is placed after the matched text
edit_requests_insert_after(edit, r, i) ==
    IF action_type(edit) \in {"Deletion", "Replacement"}
    THEN <<delete_request(r.start, r.end, i)>>
         \o (IF corrected_text(edit) # <<>>
             THEN <<insert_request(r.start, corrected_text(edit), i)>>
             ELSE <<>>)
    ELSE <<insert_request(r.end, corrected_text(edit), i)>>

edit_requests(edit, r, i) ==
    IF action_type(edit) \in {"Deletion", "Replacement"}
    THEN <<delete_request(r.start, r.end, i)>>
         \o (IF corrected_text(edit) # <<>>
             THEN <<insert_request(r.start, corrected_text(edit), i)>>
             ELSE <<>>)
    ELSE <<insert_request(r.start, corrected_text(edit), i)>>

(* create_batch_requests: one iteration of the loop over the edits *)

\* variant: an edit without a match is counted as applied
edit_step_counts_unmatched(acc, edit, i, text, items) ==
    IF action_type(edit) = "Malformed" THEN acc
    ELSE LET m == re_search(search_term(edit), text)
         IN  IF ~m.found
             THEN [acc EXCEPT !.unmatched_edits = Append(@, edit),
                              !.applied_count = @ + 1]
             ELSE LET r == Translate(items, m.start, m.end)
                  IN  IF ~RangeOk(r)
                      THEN [acc EXCEPT !.unmatched_edits = Append(@, edit)]
                      ELSE [all_requests |-> acc.all_requests \o edit_requests(edit, r, i),
                            unmatched_edits |-> acc.unmatched_edits,
                            applied_count |-> acc.applied_count + 1]

edit_step(acc, edit, i, text, items) ==
    IF action_type(edit) = "Malformed" THEN acc
    ELSE LET m == re_search(search_term(edit), text)
         IN  IF ~m.found
             THEN [acc EXCEPT !.unmatched_edits = Append(@, edit)]
             ELSE LET r == Translate(items, m.start, m.end)
                  IN  IF ~RangeOk(r)
                      THEN [acc EXCEPT !.unmatched_edits = Append(@, edit)]
                      ELSE [all_requests |-> acc.all_requests \o edit_requests(edit, r, i),
                            unmatched_edits |-> acc.unmatched_edits,
                            applied_count |-> acc.applied_count + 1]

RECURSIVE edit_loop(_, _, _, _, _)
edit_loop(acc, es, i, text, items) ==
    IF i >= Len(es) THEN acc
    ELSE edit_loop(edit_step(acc, es[i + 1], i, text, items), es, i + 1, text, items)

create_batch_requests(es, text, items) ==
    edit_loop([all_requests |-> <<>>, unmatched_edits |-> <<>>, applied_count |-> 0],
              es, 0, text, items)

----------------------------------------------------------------------------
(* The external document: documents().batchUpdate applies the requests of
   one call in order, each to the text left by the previous one, and applies
   none of them when one is invalid. *)

StyleAt(cells, index) ==
    IF index > 1 /\ index - 1 <= Len(cells) /\ cells[index - 1].c # Other
    THEN cells[index - 1].s ELSE 0

NewCells(text, style, sid) ==
    [j \in 1..Len(text) |-> [c |-> text[j], s |-> style, pos |-> 0, by |-> sid]]

ValidRequest(cells, req) ==
    IF req.kind = "deleteContentRange"
    THEN 1 <= req.startIndex /\ req.startIndex < req.endIndex
         /\ req.endIndex <= Len(cells) + 1
    ELSE 1 <= req.index /\ req.index <= Len(cells) + 1

ApplyRequest(cells, req) ==
    IF req.kind = "deleteContentRange"
    THEN SubSeq(cells, 1, req.startIndex - 1)
         \o SubSeq(cells, req.endIndex, Len(cells))
    ELSE SubSeq(cells, 1, req.index - 1)
         \o NewCells(req.text, StyleAt(cells, req.index), req.suggestion_id)
         \o SubSeq(cells, req.index, Len(cells))

\* the result of one batchUpdate call: ok and the new cells, or not ok
RECURSIVE ApplyRequests(_, _)
ApplyRequests(cells, reqs) ==
    IF reqs = <<>> THEN [ok |-> TRUE, cells |-> cells]
    ELSE IF ~ValidRequest(cells, Head(reqs)) THEN [ok |-> FALSE, cells |-> <<>>]
    ELSE ApplyRequests(ApplyRequest(cells, Head(reqs)), Tail(reqs))

\* the characters of a document, non-text elements included
Chars(cells) == [j \in 1..Len(cells) |-> cells[j].c]

----------------------------------------------------------------------------
(* The run of the "Apply Edits as Suggestions" button *)

Running == [kind |-> "running"]

\* st.success(...) then the unmatched list
Complete(applied, unmatched) ==
    [kind |-> "complete", counts |-> <<applied>>, unmatched |-> unmatched]

\* the messages of the exception handlers; none of them shows a count
Notice(kind) == [kind |-> kind, counts |-> <<>>, unmatched |-> <<>>]

Min(a, b) == IF a <= b THEN a ELSE b

\* request_chunks
NumChunks(reqs) == (Len(reqs) + CHUNK_SIZE - 1) \div CHUNK_SIZE
request_chunk(reqs, k) ==
    SubSeq(reqs, (k - 1) * CHUNK_SIZE + 1, Min(k * CHUNK_SIZE, Len(reqs)))

NoSpan == [start |-> 0, end |-> 0]

Cells(chars, styles) ==
    [j \in 1..Len(chars) |-> [c |-> chars[j], s |-> styles[j], pos |-> j, by |-> -1]]

InitWith(d, es, at, items, m) ==
    /\ doc = d
    /\ docRev = 1
    /\ otherWrites = 0
    /\ edits = es
    /\ pc = at
    /\ retry_attempt = 0
    /\ searchable_text = <<>>
    /\ flat_text_with_indices = items
    /\ current_revision_id = 0
    /\ snapshot = <<>>
    /\ all_requests = <<>>
    /\ unmatched_edits = <<>>
    /\ current_applied = 0
    /\ total_applied = 0
    /\ chunk_num = 0
    /\ chunk_success_count = 0
    /\ submissions = <<>>
    /\ fetches = 0
    /\ outcome = Running
    /\ match = m
    /\ api_range = [start |-> -1, end |-> -1]

\* the validation checks of the button: an empty edit list stops the run
Start ==
    /\ pc = "Idle"
    /\ IF edits = <<>>
       THEN pc' = "Done" /\ outcome' = Notice("no_edits")
       ELSE pc' = "Fetching" /\ outcome' = outcome
    /\ UNCHANGED <<doc, docRev, otherWrites, edits, retry_attempt, searchable_text,
                   flat_text_with_indices, current_revision_id, snapshot,
                   all_requests, unmatched_edits, current_applied, total_applied,
                   chunk_num, chunk_success_count, submissions, fetches, match,
                   api_range>>

\* the snapshot and revision fetch of one attempt
Fetch ==
    /\ pc = "Fetching"
    /\ LET got == get_text_and_index_map(doc, docRev)
       IN  /\ searchable_text' = got.searchable_text
           /\ flat_text_with_indices' = got.flat_text_with_indices
           /\ current_revision_id' = got.revision_id
    /\ snapshot' = doc
    /\ fetches' = fetches + 1
    /\ pc' = "Translating"
    /\ UNCHANGED <<doc, docRev, otherWrites, edits, retry_attempt, all_requests,
                   unmatched_edits, current_applied, total_applied, chunk_num,
                   chunk_success_count, submissions, outcome, match, api_range>>

\* documents().get raises: caught by "except Exception"
FetchError ==
    /\ pc = "Fetching"
    /\ fetches' = fetches + 1
    /\ outcome' = Notice("major_error")
    /\ pc' = "Done"
    /\ UNCHANGED <<doc, docRev, otherWrites, edits, retry_attempt, searchable_text,
                   flat_text_with_indices, current_revision_id, snapshot,
                   all_requests, unmatched_edits, current_applied, total_applied,
                   chunk_num, chunk_success_count, submissions, match, api_range>>

\* "1. Generate Requests", the break when there is none, and the chunking
Generate ==
    /\ pc = "Translating"
    /\ LET built == create_batch_requests(edits, searchable_text, flat_text_with_indices)
       IN  /\ all_requests' = built.all_requests
           /\ unmatched_edits' = built.unmatched_edits
           /\ current_applied' = built.applied_count
           /\ IF built.all_requests = <<>>
              THEN /\ pc' = "Done"
                   /\ outcome' = Complete(total_applied, built.unmatched_edits)
              ELSE /\ pc' = "Submitting"
                   /\ outcome' = outcome
    /\ chunk_num' = 0
    /\ chunk_success_count' = 0
    /\ UNCHANGED <<doc, docRev, otherWrites, edits, retry_attempt, searchable_text,
                   flat_text_with_indices, current_revision_id, snapshot,
                   total_applied, submissions, fetches, match, api_range>>

\* batchUpdate of the next chunk succeeds
SubmitOk ==
    /\ pc = "Submitting"
    /\ chunk_num < NumChunks(all_requests)
    /\ current_revision_id = docRev
    /\ LET after == ApplyRequests(doc, request_chunk(all_requests, chunk_num + 1))
       IN  /\ after.ok
           /\ doc' = after.cells
    /\ docRev' = docRev + 1
    /\ chunk_num' = chunk_num + 1
    /\ chunk_success_count' = chunk_success_count + 1
    /\ submissions' = Append(submissions, "ok")
    /\ UNCHANGED <<otherWrites, edits, pc, retry_attempt, searchable_text,
                   flat_text_with_indices, current_revision_id, snapshot,
                   all_requests, unmatched_edits, current_applied, total_applied,
                   fetches, outcome, match, api_range>>

\* variant: the conflict handler loops back to the fetch, uncounted
SubmitConflict_retry_uncounted ==
    /\ pc = "Submitting"
    /\ chunk_num < NumChunks(all_requests)
    /\ current_revision_id # docRev
    /\ LET got == get_text_and_index_map(doc, docRev)
       IN  /\ searchable_text' = got.searchable_text
           /\ flat_text_with_indices' = got.flat_text_with_indices
           /\ current_revision_id' = got.revision_id
    /\ snapshot' = doc
    /\ fetches' = fetches + 1
    /\ chunk_num' = chunk_num + 1
    /\ submissions' = Append(submissions, "conflict")
    /\ pc' = "Fetching"
    /\ UNCHANGED <<doc, docRev, otherWrites, edits, retry_attempt, all_requests,
                   unmatched_edits, current_applied, total_applied,
                   chunk_success_count, outcome, match, api_range>>

\* batchUpdate of the next chunk raises "Cannot write to revision": the
\* handler re-fetches and raises RuntimeError("REVISION_CONFLICT"), which
\* leaves the retry loop and is caught by "except RuntimeError"
SubmitConflict ==
    /\ pc = "Submitting"
    /\ chunk_num < NumChunks(all_requests)
    /\ current_revision_id # docRev
    /\ LET got == get_text_and_index_map(doc, docRev)
       IN  /\ searchable_text' = got.searchable_text
           /\ flat_text_with_indices' = got.flat_text_with_indices
           /\ current_revision_id' = got.revision_id
    /\ snapshot' = doc
    /\ fetches' = fetches + 1
    /\ chunk_num' = chunk_num + 1
    /\ submissions' = Append(submissions, "conflict")
    /\ outcome' = IF retry_attempt + 1 < MAX_RETRIES
                  THEN Notice("retry_notice")
                  ELSE Notice("conflict_failed")
    /\ pc' = "Done"
    /\ UNCHANGED <<doc, docRev, otherWrites, edits, retry_attempt, all_requests,
                   unmatched_edits, current_applied, total_applied,
                   chunk_success_count, match, api_range>>

\* batchUpdate of the next chunk raises another HttpError: re-raised and
\* caught by "except Exception"
SubmitError ==
    /\ pc = "Submitting"
    /\ chunk_num < NumChunks(all_requests)
    /\ chunk_num' = chunk_num + 1
    /\ submissions' = Append(submissions, "error")
    /\ outcome' = Notice("major_error")
    /\ pc' = "Done"
    /\ UNCHANGED <<doc, docRev, otherWrites, edits, retry_attempt, searchable_text,
                   flat_text_with_indices, current_revision_id, snapshot,
                   all_requests, unmatched_edits, current_applied, total_applied,
                   chunk_success_count, fetches, match, api_range>>

\* after the chunk loop: the success check, else the estimate and the next
\* iteration of the retry loop; the report follows the loop
AfterChunks ==
    /\ pc = "Submitting"
    /\ chunk_num = NumChunks(all_requests)
    /\ IF chunk_success_count = NumChunks(all_requests)
       THEN /\ total_applied' = total_applied + current_applied
            /\ retry_attempt' = retry_attempt
            /\ pc' = "Done"
            /\ outcome' = Complete(total_applied', unmatched_edits)
       ELSE /\ total_applied' = total_applied + chunk_success_count * CHUNK_SIZE
            /\ retry_attempt' = retry_attempt + 1
            /\ IF retry_attempt + 1 < MAX_RETRIES
               THEN pc' = "Fetching" /\ outcome' = outcome
               ELSE pc' = "Done" /\ outcome' = Complete(total_applied', unmatched_edits)
    /\ UNCHANGED <<doc, docRev, otherWrites, edits, searchable_text,
                   flat_text_with_indices, current_revision_id, snapshot,
                   all_requests, unmatched_edits, current_applied, chunk_num,
                   chunk_success_count, submissions, fetches, match, api_range>>

\* another writer changes the document, which advances its revision
OtherWriter ==
    /\ pc # "Done"
    /\ otherWrites < MaxOtherWrites
    /\ otherWrites' = otherWrites + 1
    /\ doc' = Append(doc, [c |-> "z", s |-> 0, pos |-> 0, by |-> -1])
    /\ docRev' = docRev + 1
    /\ UNCHANGED <<edits, pc, retry_attempt, searchable_text, flat_text_with_indices,
                   current_revision_id, snapshot, all_requests, unmatched_edits,
                   current_applied, total_applied, chunk_num, chunk_success_count,
                   submissions, fetches, outcome, match, api_range>>

----------------------------------------------------------------------------
(* Inputs *)

\* "ab cd" in one run
DocPlain == Cells(<<"a", "b", " ", "c", "d">>, <<0, 0, 0, 0, 0>>)
\* "abcd" in two adjacent runs "ab", "cd"
DocStyled == Cells(<<"a", "b", "c", "d">>, <<0, 0, 1, 1>>)
\* "ab", a non-text element, "cd"
DocGap == Cells(<<"a", "b", Other, "c", "d">>, <<0, 0, 0, 0, 0>>)

\* "I like cats" in one run
ILikeCats == <<"I", " ", "l", "i", "k", "e", " ", "c", "a", "t", "s">>
DocCats == Cells(ILikeCats, [j \in 1..Len(ILikeCats) |-> 0])

BuildDocs == {DocPlain, DocStyled, DocGap, DocCats}

NoKeys == [k \in {} |-> <<>>]

EditPool ==
    { [original |-> <<"a", "b">>, corrected |-> <<"x", "y", "z">>],
      [original |-> <<"c", "d">>, corrected |-> <<"q">>],
      [original |-> <<"c">>, corrected |-> <<>>],
      [original |-> <<"b">>],
      [corrected |-> <<"d">>],
      [original |-> <<>>, corrected |-> <<"d", " ">>],
      [original |-> <<" ">>, corrected |-> <<>>],
      NoKeys,
      [original |-> <<>>, corrected |-> <<"\n">>],
      [original |-> <<"q">>, corrected |-> <<"a">>],
      [original |-> <<"b", "c">>, corrected |-> <<"x">>],
      [original |-> <<" ", "a", "b">>, corrected |-> <<"x", " ">>],
      [original |-> <<" ">>, corrected |-> <<"c">>],
      [original |-> <<"c", "a", "t">>, corrected |-> <<"d", "o", "g">>],
      [original |-> <<"c", "a", "t", "s">>, corrected |-> <<"d", "o", "g", "s">>] }

SeqsUpTo(set, n) == UNION {[1..k -> set] : k \in 0..n}

RunDocs == {DocPlain, DocGap}

RunEditPool ==
    { [original |-> <<"a", "b">>, corrected |-> <<"x", "y", "z">>],
      [original |-> <<"q">>, corrected |-> <<"a">>],
      NoKeys }

RunTexts ==
    { <<>>, <<"a">>, <<"a", "b">>,
      <<"H", "e", "l", "l", "o", " ">>, <<"W", "o", "r", "l", "d">> }

RunStarts == {1, 10, 16}

RunItems ==
    { [text |-> t, startIndex |-> n, endIndex |-> n + Len(t)] :
        t \in RunTexts, n \in RunStarts }

----------------------------------------------------------------------------
(* The run *)

Init ==
    \E d \in RunDocs, es \in SeqsUpTo(RunEditPool, MaxRunEdits) :
        InitWith(d, es, "Idle", <<>>, NoSpan)

Next ==
    \/ Start
    \/ Fetch
    \/ FetchError
    \/ Generate
    \/ SubmitOk
    \/ SubmitConflict
    \/ SubmitError
    \/ AfterChunks
    \/ OtherWriter

Spec == Init /\ [][Next]_vars

\* a step of the run itself: it moves to another position or passes on to
\* the next chunk (every step of Next but those of the other writer)
Advance ==
    /\ pc # "Done"
    /\ pc' \in {"Idle", "Fetching", "Translating", "Submitting", "Done"}
    /\ chunk_num' \in {0, chunk_num, chunk_num + 1}
    /\ pc' # pc \/ chunk_num' = chunk_num + 1

\* the run is one synchronous flow of control: it takes its next step
FairSpec == Init /\ [][Next]_vars /\ WF_<<pc, chunk_num>>(Advance)

----------------------------------------------------------------------------
(* The builder on one snapshot, its requests submitted as one request *)

BuildInit ==
    \E d \in BuildDocs, es \in SeqsUpTo(EditPool, MaxEdits) :
        InitWith(d, es, "Fetching", <<>>, NoSpan)

BuildNext ==
    \/ Fetch
    \/ Generate
    \/ SubmitOk
    \/ SubmitError
    \/ AfterChunks

BuildSpec == BuildInit /\ [][BuildNext]_vars

----------------------------------------------------------------------------
(* The run without another writer, on edits of one and of two requests *)

ChunkEditPool ==
    { [original |-> <<"a", "b">>, corrected |-> <<"x", "y", "z">>],
      [original |-> <<"c">>, corrected |-> <<>>] }

ChunkInit ==
    \E es \in SeqsUpTo(ChunkEditPool, MaxRunEdits) :
        InitWith(DocPlain, es, "Idle", <<>>, NoSpan)

ChunkNext ==
    \/ Start
    \/ Fetch
    \/ Generate
    \/ SubmitOk
    \/ SubmitConflict
    \/ SubmitError
    \/ AfterChunks

ChunkSpec == ChunkInit /\ [][ChunkNext]_vars

----------------------------------------------------------------------------
(* The translator on its own *)

TranslateInit ==
    \E items \in SeqsUpTo(RunItems, MaxRuns), fs \in 0..MaxFlat, fe \in 0..MaxFlat :
        /\ fs < fe
        /\ InitWith(<<>>, <<>>, "Translate", items, [start |-> fs, end |-> fe])

TranslateKeep ==
    UNCHANGED <<doc, docRev, otherWrites, edits, retry_attempt, searchable_text,
                flat_text_with_indices, current_revision_id, snapshot, all_requests,
                unmatched_edits, current_applied, total_applied, chunk_num,
                chunk_success_count, submissions, fetches, outcome, match>>

\* the loop ends with a usable range
TranslateFound ==
    /\ pc = "Translate"
    /\ api_range' = Translate(flat_text_with_indices, match.start, match.end)
    /\ RangeOk(api_range')
    /\ pc' = "Found"
    /\ TranslateKeep

\* the guard after the loop marks the edit unmatched
TranslateFailed ==
    /\ pc = "Translate"
    /\ api_range' = Translate(flat_text_with_indices, match.start, match.end)
    /\ ~RangeOk(api_range')
    /\ pc' = "Unmatched"
    /\ TranslateKeep

TranslateNext == TranslateFound \/ TranslateFailed

TranslateSpec == TranslateInit /\ [][TranslateNext]_vars

----------------------------------------------------------------------------
(* Vocabulary of the properties *)

\* the builder has run on the snapshot the state holds
Built ==
    /\ pc \in {"Submitting", "Done"}
    /\ fetches = 1
    /\ \A j \in 1..Len(submissions) : submissions[j] # "conflict"

\* flat offset at which run k starts
RECURSIVE FlatCursor(_, _)
FlatCursor(items, k) ==
    IF k <= 1 THEN 0 ELSE FlatCursor(items, k - 1) + Len(items[k - 1].text)

StartOwners(items, f) ==
    {k \in 1..Len(items) :
        FlatCursor(items, k) <= f /\ f < FlatCursor(items, k) + Len(items[k].text)}

EndOwners(items, f) ==
    {k \in 1..Len(items) :
        FlatCursor(items, k) < f /\ f <= FlatCursor(items, k) + Len(items[k].text)}

\* text that is empty once leading and trailing whitespace is removed
Blank(s) == \A j \in 1..Len(s) : s[j] \in Whitespace

\* text without its leading and trailing whitespace
IsTrimOf(t, s) ==
    \/ Blank(s) /\ t = <<>>
    \/ \E a \in 1..Len(s), b \in 1..Len(s) :
          /\ a <= b
          /\ s[a] \notin Whitespace /\ s[b] \notin Whitespace
          /\ Blank(SubSeq(s, 1, a - 1)) /\ Blank(SubSeq(s, b + 1, Len(s)))
          /\ t = SubSeq(s, a, b)

EditIds == 0..(Len(edits) - 1)

\* positions in all_requests of the requests built for edit i
RequestsOf(i) == {p \in 1..Len(all_requests) : all_requests[p].suggestion_id = i}

\* edit i found its search phrase and got a usable native range
Found(i) ==
    /\ action_type(edits[i + 1]) # "Malformed"
    /\ re_search(search_term(edits[i + 1]), searchable_text).found

NativeRange(i) ==
    LET m == re_search(search_term(edits[i + 1]), searchable_text)
    IN  Translate(flat_text_with_indices, m.start, m.end)

Matched(i) == Found(i) /\ RangeOk(NativeRange(i))

IsDelete(req, r) ==
    req.kind = "deleteContentRange" /\ req.startIndex = r.start /\ req.endIndex = r.end

IsInsert(req, index, text) ==
    req.kind = "insertText" /\ req.index = index /\ req.text = text

\* an edit operation without the suggestion id that labels it
Operation(req) ==
    IF req.kind = "deleteContentRange"
    THEN <<"DeleteRange", req.startIndex, req.endIndex>>
    ELSE <<"InsertText", req.index, req.text>>

Operations(reqs) == [p \in 1..Len(reqs) |-> Operation(reqs[p])]

Without(seq, p) == SubSeq(seq, 1, p - 1) \o SubSeq(seq, p + 1, Len(seq))

----------------------------------------------------------------------------
(* C6: for a span [flatStart, flatEnd) the translator returns, as start, the
   native start of the run whose flat range [cursor, cursor+len) contains
   flatStart plus (flatStart - cursor) and, as end, the native start of the
   run with cursor < flatEnd <= cursor+len plus (flatEnd - cursor); runs
   "Hello ", "World" at 10 and 16 with span [4,9] give start 14, end 19. *)
C6_Translation ==
    pc \in {"Found", "Unmatched"} =>
        LET items == flat_text_with_indices
        IN  /\ \A k \in StartOwners(items, match.start) :
                  api_range.start =
                      items[k].startIndex + (match.start - FlatCursor(items, k))
            /\ \A k \in EndOwners(items, match.end) :
                  api_range.end =
                      items[k].startIndex + (match.end - FlatCursor(items, k))
            /\ StartOwners(items, match.start) = {} => api_range.start = -1
            /\ EndOwners(items, match.end) = {} => api_range.end = -1

C6_Witness ==
    /\ pc = "Found"
    /\ Len(flat_text_with_indices) = 2
    /\ flat_text_with_indices[1].text = <<"H", "e", "l", "l", "o", " ">>
    /\ flat_text_with_indices[1].startIndex = 10
    /\ flat_text_with_indices[2].text = <<"W", "o", "r", "l", "d">>
    /\ flat_text_with_indices[2].startIndex = 16
    /\ match = [start |-> 4, end |-> 9]
    /\ api_range = [start |-> 14, end |-> 19]

(* C7: every matched Replacement has exactly two requests, adjacent and in
   this order: a DeleteRange over its native range, then an InsertText of its
   corrected text at the range's start; every matched Deletion has exactly
   one request, a DeleteRange over its native range.  The corrected text is
   the edit's corrected field as the builder reads it, trimmed. *)
C7_DeleteThenInsert ==
    Built =>
        \A i \in EditIds :
            Matched(i) /\ action_type(edits[i + 1]) \in {"Replacement", "Deletion"} =>
                LET r == NativeRange(i)
                    e == edits[i + 1]
                IN  \E p \in 1..Len(all_requests) :
                        /\ IsDelete(all_requests[p], r)
                        /\ IF action_type(e) = "Replacement"
                           THEN /\ RequestsOf(i) = {p, p + 1}
                                /\ p + 1 <= Len(all_requests)
                                /\ IsTrimOf(all_requests[p + 1].text, get(e, "corrected"))
                                /\ IsInsert(all_requests[p + 1], r.start,
                                            all_requests[p + 1].text)
                           ELSE RequestsOf(i) = {p}

C7_Witness ==
    /\ Built
    /\ \E i \in EditIds : Matched(i) /\ action_type(edits[i + 1]) = "Replacement"
                          /\ Cardinality(RequestsOf(i)) = 2
    /\ \E i \in EditIds : Matched(i) /\ action_type(edits[i + 1]) = "Deletion"
                          /\ Cardinality(RequestsOf(i)) = 1

(* C8 as stated: a matched Insertion (empty original, non-empty corrected)
   has exactly one request, an InsertText at the native start of its anchor
   match, whose text is the edit's corrected string unmodified, character
   for character. *)
C8_InsertionUnmodified ==
    Built =>
        \A i \in EditIds :
            LET e == edits[i + 1]
            IN  get(e, "original") = <<>> /\ get(e, "corrected") # <<>> /\ Matched(i) =>
                    \E p \in 1..Len(all_requests) :
                        /\ RequestsOf(i) = {p}
                        /\ IsInsert(all_requests[p], NativeRange(i).start,
                                    get(e, "corrected"))

(* C8 amended: a matched Insertion (empty original, non-empty corrected)
   has exactly one request, an InsertText at the native start of its anchor
   match, whose text is the edit's corrected string with its leading and
   trailing whitespace removed. *)
C8_InsertionTrimmed ==
    Built =>
        \A i \in EditIds :
            LET e == edits[i + 1]
            IN  get(e, "original") = <<>> /\ get(e, "corrected") # <<>> /\ Matched(i) =>
                    \E p \in 1..Len(all_requests) :
                        /\ RequestsOf(i) = {p}
                        /\ IsInsert(all_requests[p], NativeRange(i).start,
                                    all_requests[p].text)
                        /\ IsTrimOf(all_requests[p].text, get(e, "corrected"))

C8_Witness ==
    /\ Built
    /\ \E i \in EditIds :
          /\ get(edits[i + 1], "original") = <<>>
          /\ get(edits[i + 1], "corrected") = <<"d", " ">>
          /\ Matched(i)
          /\ \E p \in RequestsOf(i) : all_requests[p].text = <<"d">>

(* C9 as stated: every edit record gets exactly one of Insertion, Deletion,
   Replacement, Malformed; it is Malformed if and only if both its original
   and corrected fields are empty (a missing key reads as empty); a
   Malformed edit has no request and is not listed as unmatched. *)
C9_MalformedIffEmpty ==
    Built => \A i \in EditIds :
        LET e == edits[i + 1]
        IN  /\ action_type(e) \in {"Insertion", "Deletion", "Replacement", "Malformed"}
            /\ action_type(e) = "Malformed"
                  <=> (get(e, "original") = <<>> /\ get(e, "corrected") = <<>>)
            /\ action_type(e) = "Malformed" =>
                  /\ RequestsOf(i) = {}
                  /\ \A q \in 1..Len(unmatched_edits) : unmatched_edits[q] # e

(* C9 amended: every edit record gets exactly one of Insertion, Deletion,
   Replacement, Malformed; it is Malformed if and only if both its original
   and corrected fields are empty once leading and trailing whitespace is
   removed (a missing key reads as empty); a Malformed edit has no request
   and is not listed as unmatched. *)
C9_MalformedIffBlank ==
    Built => \A i \in EditIds :
        LET e == edits[i + 1]
            o == Blank(get(e, "original"))
            c == Blank(get(e, "corrected"))
        IN  /\ action_type(e) \in {"Insertion", "Deletion", "Replacement", "Malformed"}
            /\ action_type(e) = "Malformed" <=> (o /\ c)
            /\ action_type(e) = "Replacement" <=> (~o /\ ~c)
            /\ action_type(e) = "Deletion" <=> (~o /\ c)
            /\ action_type(e) = "Insertion" <=> (o /\ ~c)
            /\ action_type(e) = "Malformed" =>
                  /\ RequestsOf(i) = {}
                  /\ \A q \in 1..Len(unmatched_edits) : unmatched_edits[q] # e

C9_Witness ==
    /\ Built
    /\ all_requests # <<>>
    /\ \E i \in EditIds :
          /\ get(edits[i + 1], "original") = <<" ">>
          /\ action_type(edits[i + 1]) = "Malformed"
    /\ \E i \in EditIds : "original" \notin DOMAIN edits[i + 1] /\ Matched(i)

(* C10: an edit whose search phrase does not occur in the flat text is
   appended to the unmatched list, has no request, adds nothing to the
   applied count, and the other edits get the operations, the unmatched
   entries and the applied count they get when that edit is absent. *)
C10_UnmatchedIsolated ==
    Built =>
        /\ current_applied = Cardinality({j \in EditIds : Matched(j)})
        /\ \A i \in EditIds :
              action_type(edits[i + 1]) # "Malformed" /\ ~Found(i) =>
                  /\ RequestsOf(i) = {}
                  /\ \E q \in 1..Len(unmatched_edits) :
                        /\ unmatched_edits[q] = edits[i + 1]
                        /\ LET rest == create_batch_requests(Without(edits, i + 1),
                                           searchable_text, flat_text_with_indices)
                           IN  /\ Operations(rest.all_requests) = Operations(all_requests)
                               /\ rest.unmatched_edits = Without(unmatched_edits, q)
                               /\ rest.applied_count = current_applied

C10_Witness ==
    /\ Built
    /\ \E i \in EditIds, j \in EditIds :
          /\ i < j
          /\ action_type(edits[i + 1]) # "Malformed" /\ ~Found(i)
          /\ Matched(j)
          /\ RequestsOf(j) # {}
    /\ Len(unmatched_edits) = 1

----------------------------------------------------------------------------
(* Vocabulary of the order of application *)

MatchedEdits == {i \in EditIds : Matched(i)}

\* the orders of the matched edits in which no edit comes before an edit
\* whose match starts at a higher native index
DescendingStart ==
    {o \in [1..Cardinality(MatchedEdits) -> MatchedEdits] :
        /\ \A a \in DOMAIN o, b \in DOMAIN o : a # b => o[a] # o[b]
        /\ \A a \in DOMAIN o, b \in DOMAIN o :
              a < b => NativeRange(o[a]).start >= NativeRange(o[b]).start}

\* the requests the builder produced for edit i, in the builder's order
RequestsFor(i) ==
    LET Own(req) == req.suggestion_id = i
    IN  SelectSeq(all_requests, Own)

\* the requests of the edits taken in the order o
RECURSIVE InOrder(_)
InOrder(o) ==
    IF o = <<>> THEN <<>> ELSE RequestsFor(Head(o)) \o InOrder(Tail(o))

CatEdits ==
    << [original |-> <<"c", "a", "t">>, corrected |-> <<"d", "o", "g">>],
       [original |-> <<"c", "a", "t", "s">>, corrected |-> <<"d", "o", "g", "s">>] >>

ILikeDogs == <<"I", " ", "l", "i", "k", "e", " ", "d", "o", "g", "s">>

(* C11: for the edits cat -> dog, cats -> dogs against the text
   "I like cats" both edits match, and applying the requests the builder
   produced, edit by edit in any descending order of match start, one after
   another, leaves exactly "I like dogs". *)
C11_CatsBecomeDogs ==
    Built /\ Chars(snapshot) = ILikeCats /\ edits = CatEdits =>
        /\ MatchedEdits = {0, 1}
        /\ \A o \in DescendingStart :
              LET final == ApplyRequests(snapshot, InOrder(o))
              IN  final.ok /\ Chars(final.cells) = ILikeDogs

C11_Witness ==
    /\ Built
    /\ snapshot = DocCats
    /\ edits = CatEdits
    /\ Cardinality(DescendingStart) = 2
    /\ Len(all_requests) = 4
    /\ pc = "Done"
    /\ outcome.kind = "complete"
    /\ Chars(doc) = ILikeDogs

----------------------------------------------------------------------------
(* Vocabulary of the properties of the run *)

Last(seq) == seq[Len(seq)]

AllConflict == \A j \in 1..Len(submissions) : submissions[j] = "conflict"

OkCount == Cardinality({j \in 1..Len(submissions) : submissions[j] = "ok"})

\* number of requests the document has received from this run
OpsApplied == Min(OkCount * CHUNK_SIZE, Len(all_requests))

MalformedIds == {i \in EditIds : action_type(edits[i + 1]) = "Malformed"}

\* edits with requests of which the document has not received all
FailedIds ==
    {i \in EditIds : \E p \in RequestsOf(i) : p > OpsApplied}

\* the run ended in one of the ways success, nothing to apply, conflict,
\* submit error
EndedAfterBuild ==
    /\ pc = "Done"
    /\ \/ outcome.kind \in {"complete", "retry_notice", "conflict_failed"}
       \/ outcome.kind = "major_error" /\ submissions # <<>>

MatchedIds == {i \in EditIds : Matched(i)}

NonOverlapping ==
    \A i \in MatchedIds, j \in MatchedIds :
        i # j => \/ NativeRange(i).end <= NativeRange(j).start
                 \/ NativeRange(j).end <= NativeRange(i).start

\* what edit i puts in the place of its match: a Replacement its corrected
\* text, a Deletion nothing, an Insertion its corrected text before the match
Replacing(i, chars) ==
    LET e == edits[i + 1]
        r == NativeRange(i)
    IN  IF action_type(e) = "Insertion"
        THEN corrected_text(e) \o SubSeq(chars, r.start, r.end - 1)
        ELSE corrected_text(e)

\* the snapshot text with every matched span replaced, from native index q on
RECURSIVE ExpectedFrom(_, _)
ExpectedFrom(chars, q) ==
    IF q > Len(chars) THEN <<>>
    ELSE LET here == {i \in MatchedIds : NativeRange(i).start = q}
         IN  IF here = {}
             THEN <<chars[q]>> \o ExpectedFrom(chars, q + 1)
             ELSE LET i == CHOOSE j \in here : TRUE
                  IN  Replacing(i, chars) \o ExpectedFrom(chars, NativeRange(i).end)

\* request k, applied to the text left by the requests before it, touches
\* only the characters of its own edit's match
TouchesOwnMatch(k) ==
    LET before == ApplyRequests(snapshot, SubSeq(all_requests, 1, k - 1))
        req == all_requests[k]
        r == NativeRange(req.suggestion_id)
    IN  /\ before.ok
        /\ ValidRequest(before.cells, req)
        /\ IF req.kind = "deleteContentRange"
           THEN \A q \in req.startIndex..(req.endIndex - 1) :
                    before.cells[q].pos \in r.start..(r.end - 1)
           ELSE \A q \in 1..Len(before.cells) :
                    before.cells[q].pos > 0 =>
                        (q < req.index <=> before.cells[q].pos < r.start)

----------------------------------------------------------------------------
(* C1: when the matches of the edits in the snapshot are pairwise
   non-overlapping, applying all_requests one after another in list order,
   each to the text left by the previous ones, yields the snapshot text with
   every matched span replaced by its edit's corrected text, and no request
   deletes or inserts outside its own edit's match. *)
C1_IndicesStayValid ==
    Built /\ NonOverlapping =>
        LET final == ApplyRequests(snapshot, all_requests)
        IN  /\ final.ok
            /\ Chars(final.cells) = ExpectedFrom(Chars(snapshot), 1)
            /\ \A k \in 1..Len(all_requests) : TouchesOwnMatch(k)

(* C2: a revision conflict met while fewer than MAX_RETRIES attempts have
   been made sends the run back to Fetching, from where it submits again. *)
C2_ConflictRetries ==
    [][ ( /\ Len(submissions') = Len(submissions) + 1
          /\ Last(submissions') = "conflict"
          /\ retry_attempt + 1 < MAX_RETRIES ) => pc' = "Fetching" ]_vars

(* C3: the run always terminates: from some point on it is over for good,
   and if every batch submission returned a revision conflict there were at
   most MAX_RETRIES of them and the run has ended in a failure state. *)
C3_ConflictsTerminate ==
    <>[](/\ pc = "Done"
         /\ AllConflict => Len(submissions) <= MAX_RETRIES
         /\ submissions # <<>> /\ AllConflict =>
                outcome.kind \in {"retry_notice", "conflict_failed"})

C3_Witness ==
    /\ pc = "Done"
    /\ submissions = <<"conflict">>
    /\ outcome.kind = "retry_notice"
    /\ fetches = 2
    /\ otherWrites = MaxOtherWrites

(* C4: at the end of a run (success, nothing to apply, conflict, submit
   error) the applied count, the unmatched edits, the malformed edits and the
   failed edits add up to the input edits. *)
C4_EveryEditAccounted ==
    EndedAfterBuild =>
        total_applied + Len(unmatched_edits) + Cardinality(MalformedIds)
            + Cardinality(FailedIds) = Len(edits)

(* C5: when a batch submission fails with a non-conflict error the run
   stops at that batch, the batches applied before stay applied, and the run
   ends reporting the number of operations applied and the number failed. *)
C5_ErrorReportsCounts ==
    pc = "Done" /\ submissions # <<>> /\ Last(submissions) = "error" =>
        /\ OkCount = Len(submissions) - 1
        /\ chunk_num = Len(submissions)
        /\ otherWrites = 0 =>
              doc = ApplyRequests(snapshot, SubSeq(all_requests, 1, OpsApplied)).cells
        /\ outcome.counts = <<OpsApplied, Len(all_requests) - OpsApplied>>

NoSubmitError == \A j \in 1..Len(submissions) : submissions[j] # "error"

(* C12: with no other writer and no submission error, in a run whose
   requests need more than one batch, the revision token held for the batch
   about to be submitted is the document's current revision, and the run
   ends complete with every batch applied. *)
C12_TokenNeverStale ==
    otherWrites = 0 /\ NoSubmitError /\ NumChunks(all_requests) > 1 =>
        /\ pc = "Submitting" /\ chunk_num < NumChunks(all_requests) =>
              current_revision_id = docRev
        /\ pc = "Done" =>
              /\ outcome.kind = "complete"
              /\ OkCount = NumChunks(all_requests)
              /\ doc = ApplyRequests(snapshot, all_requests).cells

\* the batch that carries request p
ChunkOf(p) == (p - 1) \div CHUNK_SIZE + 1

\* the batches 1..k one after another
RECURSIVE ChunksUpTo(_, _)
ChunksUpTo(reqs, k) ==
    IF k = 0 THEN <<>> ELSE ChunksUpTo(reqs, k - 1) \o request_chunk(reqs, k)

\* the document has received some but not all requests of edit i
HalfApplied(i) ==
    /\ \E p \in RequestsOf(i) : p <= OpsApplied
    /\ \E p \in RequestsOf(i) : p > OpsApplied

(* C13: the batches are all_requests cut in order into consecutive chunks
   of 1..CHUNK_SIZE requests; the DeleteRange and the InsertText of one
   Replacement are in the same batch; and a run that has ended leaves no
   Replacement with its delete applied and its insert not applied. *)
C13_ReplacementInOneBatch ==
    pc \in {"Submitting", "Done"} /\ all_requests # <<>> =>
        /\ ChunksUpTo(all_requests, NumChunks(all_requests)) = all_requests
        /\ \A k \in 1..NumChunks(all_requests) :
              Len(request_chunk(all_requests, k)) \in 1..CHUNK_SIZE
        /\ \A i \in EditIds :
              action_type(edits[i + 1]) = "Replacement" =>
                  /\ \A p \in RequestsOf(i), q \in RequestsOf(i) : ChunkOf(p) = ChunkOf(q)
                  /\ pc = "Done" => ~HalfApplied(i)

----------------------------------------------------------------------------
(* Vocabulary of the snapshots *)

\* runs ordered by native start, not overlapping, each as long natively as
\* its text
WellFormed(items) ==
    /\ \A k \in 1..Len(items) :
          items[k].endIndex - items[k].startIndex = Len(items[k].text)
    /\ \A k \in 1..(Len(items) - 1) :
          /\ items[k].startIndex <= items[k + 1].startIndex
          /\ items[k].endIndex <= items[k + 1].startIndex

FlatLen(items) == FlatCursor(items, Len(items) + 1)

\* each of the runs a..b starts where the one before it ends
Contiguous(items, a, b) ==
    \A k \in a..(b - 1) : items[k].endIndex = items[k + 1].startIndex

(* C14: in a snapshot whose runs are ordered by native start, do not
   overlap and have nativeEnd - nativeStart = len(text), every span
   [flatStart, flatEnd) inside the flat text translates: the guard does not
   mark it unmatched, both endpoints are located, start < end, start lies in
   [nativeStart, nativeEnd) of the run owning flatStart, end lies in
   (nativeStart, nativeEnd] of the run owning flatEnd, and end - start >=
   flatEnd - flatStart, with equality when the runs from the one to the
   other are contiguous. *)
C14_FoundMatchTranslates ==
    LET items == flat_text_with_indices
    IN  /\ pc \in {"Found", "Unmatched"}
        /\ WellFormed(items)
        /\ match.end <= FlatLen(items)
        => /\ pc = "Found"
           /\ api_range.start # -1 /\ api_range.end # -1
           /\ api_range.start < api_range.end
           /\ \E a \in StartOwners(items, match.start), b \in EndOwners(items, match.end) :
                 /\ a <= b
                 /\ items[a].startIndex <= api_range.start
                 /\ api_range.start < items[a].endIndex
                 /\ items[b].startIndex < api_range.end
                 /\ api_range.end <= items[b].endIndex
                 /\ api_range.end - api_range.start >= match.end - match.start
                 /\ Contiguous(items, a, b) =>
                       api_range.end - api_range.start = match.end - match.start

C14_Witness ==
    LET items == flat_text_with_indices
    IN  /\ pc = "Found"
        /\ WellFormed(items)
        /\ Len(items) = 2
        /\ ~Contiguous(items, 1, 2)
        /\ StartOwners(items, match.start) = {1}
        /\ EndOwners(items, match.end) = {2}
        /\ api_range.end - api_range.start > match.end - match.start

====
